---- MODULE Spec2Model ----
(***************************************************************************)
(* A model of yaffel/parser.py: tokenize, the funcparserlib grammar of     *)
(* parse with its semantic actions, and the Function/Set/Enumeration/Range *)
(* classes.  Text is a sequence of one-character strings; a parse call is  *)
(* a run of the tokenizer loop followed by the grammar.                    *)
(***************************************************************************)
EXTENDS Integers, Sequences, FiniteSets, TLC

\* The parse calls still to be made, the text of the running call with the
\* program it was written from, the tokenizer's position in it and the
\* tokens produced so far, what each finished call returned or raised, and
\* the number of objects allocated so far.
VARIABLES todo, prog, src, pos, toks, pc, results, heap

vars == <<todo, prog, src, pos, toks, pc, results, heap>>

RECURSIVE RunLen(_, _, _), NotQuoteLen(_, _), IntOfDigits(_, _), Pow10(_), Gcd(_, _)
RECURSIVE IPow(_, _), BitAnd(_, _), BitOr(_, _)
RECURSIVE Function__call__(_, _), Function_value(_, _), FoldExpr(_, _, _, _)
RECURSIVE atom(_, _), factor(_, _), term(_, _), expression(_, _), many(_, _, _, _)
RECURSIVE binding(_, _), context(_, _), evaluable(_, _), evaluation(_, _)
RECURSIVE enumeration(_, _), range_(_, _), set_(_, _), set_expr(_, _)
RECURSIVE set_binding(_, _), set_context(_, _)
RECURSIVE context_loop(_, _, _), EvalAll(_, _, _), Dedup(_, _)
RECURSIVE DigitsOf(_), Join(_, _, _)
RECURSIVE ArithWords(_, _), RefChain(_, _, _, _)
RECURSIVE FoldExprRight(_, _, _, _), BindingWords(_, _, _), make_context_override_loop(_, _, _)
RECURSIVE EnumWords(_, _), Words(_), with_forward_decls(_, _, _), item(_, _, _)

\* ------------------------------------------------------------ characters

Lower == {"a", "b", "c", "d", "e", "f", "g", "h", "i", "j", "k", "l", "m",
          "n", "o", "p", "q", "r", "s", "t", "u", "v", "w", "x", "y", "z"}
Upper == {"A", "B", "C", "D", "E", "F", "G", "H", "I", "J", "K", "L", "M",
          "N", "O", "P", "Q", "R", "S", "T", "U", "V", "W", "X", "Y", "Z"}
Digit == {"0", "1", "2", "3", "4", "5", "6", "7", "8", "9"}
SpaceChar == {" ", "\t", "\r", "\n"}
NameStart == Lower \cup Upper \cup {"_"}
NameChar == NameStart \cup Digit
OperatorChar == {"{", "}", "[", "]", "(", ")", "-", "+", "*", "/", "=", ">", "<",
                 ".", ",", ":"}

\* The character at index i of text s ("" past the end, which is in no class).
At(s, i) == IF i >= 1 /\ i <= Len(s) THEN s[i] ELSE ""

\* The length of the longest run of characters of class S starting at i.
RunLen(s, i, S) == IF At(s, i) \in S THEN 1 + RunLen(s, i + 1, S) ELSE 0

\* The length of the longest run of characters other than '"' starting at i.
NotQuoteLen(s, i) ==
    IF i <= Len(s) /\ s[i] # "\"" THEN 1 + NotQuoteLen(s, i + 1) ELSE 0

\* ------------------------------------------------------------- tokenize

\* r'[ \t\r\n]+' : the length matched at i, 0 for no match.
spec_space(s, i) == RunLen(s, i, SpaceChar)

\* r'-?(0|([1-9][0-9]*))(\.[0-9]+)?([Ee][+-][0-9]+)?'
spec_number(s, i) ==
    LET sign == IF At(s, i) = "-" THEN 1 ELSE 0
        j == i + sign
        int == IF At(s, j) = "0" THEN 1
               ELSE IF At(s, j) \in Digit THEN RunLen(s, j, Digit)
               ELSE 0
        k == j + int
        fd == RunLen(s, k + 1, Digit)
        frac == IF At(s, k) = "." /\ fd > 0 THEN 1 + fd ELSE 0
        m == k + frac
        ed == RunLen(s, m + 2, Digit)
        exp == IF At(s, m) \in {"E", "e"} /\ At(s, m + 1) \in {"+", "-"} /\ ed > 0
               THEN 2 + ed ELSE 0
    IN IF int = 0 THEN 0 ELSE sign + int + frac + exp

\* r'"[^"]*"'
spec_string(s, i) ==
    LET n == NotQuoteLen(s, i + 1)
    IN IF At(s, i) = "\"" /\ At(s, i + 1 + n) = "\"" THEN n + 2 ELSE 0

\* r'(\*\*)|(and)|(or)|(in)|[{}\[\]\(\)\-\+\*/=><\.,:]' : the alternatives
\* are tried in this order and the first that matches is taken.
spec_operator(s, i) ==
    IF At(s, i) = "*" /\ At(s, i + 1) = "*" THEN 2
    ELSE IF At(s, i) = "a" /\ At(s, i + 1) = "n" /\ At(s, i + 2) = "d" THEN 3
    ELSE IF At(s, i) = "o" /\ At(s, i + 1) = "r" THEN 2
    ELSE IF At(s, i) = "i" /\ At(s, i + 1) = "n" THEN 2
    ELSE IF At(s, i) \in OperatorChar THEN 1
    ELSE 0

\* r'[A-Za-z_][A-Za-z_0-9]*'
spec_name(s, i) == IF At(s, i) \in NameStart THEN RunLen(s, i, NameChar) ELSE 0

Token(type, value) == [kind |-> "Token", type |-> type, value |-> value]

NoToken == [kind |-> "LexerError", type |-> "", value |-> <<>>]

\* funcparserlib's match_specs: the specifications are tried in the order of
\* grammar_specifications and the first whose regexp matches at i makes the token.
match_specs(s, i) ==
    LET tok(type, n) == Token(type, SubSeq(s, i, i + n - 1))
    IN IF spec_space(s, i) > 0 THEN tok("space", spec_space(s, i))
       ELSE IF spec_number(s, i) > 0 THEN tok("number", spec_number(s, i))
       ELSE IF spec_string(s, i) > 0 THEN tok("string", spec_string(s, i))
       ELSE IF spec_operator(s, i) > 0 THEN tok("operator", spec_operator(s, i))
       ELSE IF spec_name(s, i) > 0 THEN tok("name", spec_name(s, i))
       ELSE NoToken

\* -------------------------------------------------------------- numbers

\* A Python number: an int (d = 1), a float held as the reduced fraction n/d,
\* or the result of a power with a fractional exponent, which has no fraction
\* and is held as the term that produced it (irr, a sequence of integers).
Num(t, n, d) == [kind |-> "num", t |-> t, n |-> n, d |-> d, irr |-> <<>>]

PyInt(n) == Num("int", n, 1)

Abs(n) == IF n < 0 THEN -n ELSE n

Gcd(a, b) == IF b = 0 THEN a ELSE Gcd(b, a % b)

PyFloat(n, d) ==
    LET g == Gcd(Abs(n), Abs(d))
        s == IF d < 0 THEN -1 ELSE 1
    IN Num("float", s * (n \div g), s * (d \div g))

DigitVal(c) ==
    CASE c = "0" -> 0 [] c = "1" -> 1 [] c = "2" -> 2 [] c = "3" -> 3 [] c = "4" -> 4
      [] c = "5" -> 5 [] c = "6" -> 6 [] c = "7" -> 7 [] c = "8" -> 8 [] c = "9" -> 9

\* The number written by the digits of s, continuing from acc.
IntOfDigits(s, acc) ==
    IF s = <<>> THEN acc ELSE IntOfDigits(Tail(s), 10 * acc + DigitVal(Head(s)))

Pow10(k) == IF k = 0 THEN 1 ELSE 10 * Pow10(k - 1)

\* int(t) succeeds on an optional sign and digits; anything else the number
\* regexp lets through (a fraction, an exponent) raises ValueError and
\* float(t) is taken.
make_number(t) ==
    LET neg == At(t, 1) = "-"
        body == IF neg THEN Tail(t) ELSE t
        il == RunLen(body, 1, Digit)
        sgn == IF neg THEN -1 ELSE 1
    IN IF il = Len(body) THEN PyInt(sgn * IntOfDigits(body, 0))
       ELSE LET fl == IF At(body, il + 1) = "." THEN RunLen(body, il + 2, Digit) ELSE 0
                mant == IntOfDigits(SubSeq(body, 1, il), 0) * Pow10(fl)
                        + IntOfDigits(SubSeq(body, il + 2, il + 1 + fl), 0)
                ep == il + (IF fl > 0 THEN fl + 1 ELSE 0) + 1
                hasExp == At(body, ep) \in {"E", "e"}
                ex == IF hasExp THEN IntOfDigits(SubSeq(body, ep + 2, Len(body)), 0) ELSE 0
                up == hasExp /\ At(body, ep + 1) = "+"
            IN IF up THEN PyFloat(sgn * mant * Pow10(ex), Pow10(fl))
               ELSE PyFloat(sgn * mant, Pow10(fl) * Pow10(ex))

\* ------------------------------------------------------------ outcomes

\* What a Python call does: it returns a value or raises an exception.
Ok(v) == [st |-> "ok", v |-> v]

Exc(exc, msg, arg) == [kind |-> "exception", exc |-> exc, msg |-> msg, arg |-> arg]

Raise(exc, msg, arg) == [st |-> "raise", v |-> Exc(exc, msg, arg)]

NoneV == [kind |-> "None"]

\* What follows a call when no except clause is around it: K on the value
\* returned, or the exception raised, which propagates.
Try(o, K(_)) == IF o.st # "ok" THEN o ELSE K(o.v)

\* try: o except exc: handler
Except(o, exc, handler) == IF o.st = "raise" /\ o.v.exc = exc THEN handler ELSE o

\* ------------------------------------------------ the operator module

IPow(a, k) == IF k = 0 THEN 1 ELSE a * IPow(a, k - 1)

\* Python's & and | on ints of any sign (two's complement of unbounded width).
BitAnd(a, b) ==
    IF a = 0 \/ b = 0 THEN 0
    ELSE IF a = -1 THEN b
    ELSE IF b = -1 THEN a
    ELSE (a % 2) * (b % 2) + 2 * BitAnd(a \div 2, b \div 2)

BitOr(a, b) ==
    IF a = 0 THEN b
    ELSE IF b = 0 THEN a
    ELSE IF a = -1 \/ b = -1 THEN -1
    ELSE (IF a % 2 = 1 \/ b % 2 = 1 THEN 1 ELSE 0) + 2 * BitOr(a \div 2, b \div 2)

Exact(v) == v.irr = <<>>

Enc(v) == IF Exact(v) THEN <<0, v.n, v.d>> ELSE v.irr

\* The result of an operation that has no fraction: the term itself.
Opaque(t, code, a, b) ==
    [kind |-> "num", t |-> t, n |-> 0, d |-> 0, irr |-> <<code>> \o Enc(a) \o Enc(b)]

\* Numeric promotion of a binary operation.
ResT(a, b) ==
    IF a.t = "complex" \/ b.t = "complex" THEN "complex"
    ELSE IF a.t = "int" /\ b.t = "int" THEN "int"
    ELSE "float"

OpaqueT(a, b) == IF ResT(a, b) = "complex" THEN "complex" ELSE "float"

Mk(t, n, d) == IF t = "int" THEN PyInt(n) ELSE PyFloat(n, d)

operator_add(a, b) ==
    IF Exact(a) /\ Exact(b) THEN Ok(Mk(ResT(a, b), a.n * b.d + b.n * a.d, a.d * b.d))
    ELSE Ok(Opaque(OpaqueT(a, b), 1, a, b))

operator_sub(a, b) ==
    IF Exact(a) /\ Exact(b) THEN Ok(Mk(ResT(a, b), a.n * b.d - b.n * a.d, a.d * b.d))
    ELSE Ok(Opaque(OpaqueT(a, b), 2, a, b))

operator_mul(a, b) ==
    IF Exact(a) /\ Exact(b) THEN Ok(Mk(ResT(a, b), a.n * b.n, a.d * b.d))
    ELSE Ok(Opaque(OpaqueT(a, b), 3, a, b))

\* operator.truediv: a float whatever the operands are.
operator_truediv(a, b) ==
    IF Exact(b) /\ b.n = 0 THEN Raise("ZeroDivisionError", "division by zero", <<>>)
    ELSE IF Exact(a) /\ Exact(b) THEN Ok(PyFloat(a.n * b.d, a.d * b.n))
    ELSE Ok(Opaque(OpaqueT(a, b), 4, a, b))

\* A faulty operator.pow: int ** int stays an int for a negative exponent too
\* (the quotient is floored).
operator_pow_floor(a, b) ==
    IF Exact(a) /\ Exact(b) /\ b.d = 1 /\ b.n < 0 /\ a.n # 0
    THEN Ok(Mk(ResT(a, b), IPow(a.d, -b.n) \div IPow(a.n, -b.n), 1))
    ELSE IF Exact(a) /\ Exact(b) /\ b.d = 1 /\ b.n >= 0
    THEN Ok(Mk(ResT(a, b), IPow(a.n, b.n), IPow(a.d, b.n)))
    ELSE Ok(Opaque(OpaqueT(a, b), 5, a, b))

\* operator.pow: int ** int is an int for an exponent >= 0 and a float for a
\* negative one; a power of zero to a negative exponent raises.
operator_pow(a, b) ==
    IF ~(Exact(a) /\ Exact(b)) THEN Ok(Opaque(OpaqueT(a, b), 5, a, b))
    ELSE IF b.d = 1 THEN
        IF b.n >= 0 THEN Ok(Mk(ResT(a, b), IPow(a.n, b.n), IPow(a.d, b.n)))
        ELSE IF a.n = 0
             THEN Raise("ZeroDivisionError", "0.0 cannot be raised to a negative power", <<>>)
        ELSE Ok(PyFloat(IPow(a.d, -b.n), IPow(a.n, -b.n)))
    ELSE IF a.n = 0 THEN
        IF b.n > 0 THEN Ok(PyFloat(0, 1))
        ELSE Raise("ZeroDivisionError", "0.0 cannot be raised to a negative power", <<>>)
    ELSE IF a.n = a.d THEN Ok(PyFloat(1, 1))
    ELSE IF a.n > 0 THEN Ok(Opaque("float", 5, a, b))
    ELSE Ok(Opaque("complex", 5, a, b))

\* operator.and_ and operator.or_ are & and |: defined on ints only.
operator_and_(a, b) ==
    IF a.t = "int" /\ b.t = "int" THEN Ok(PyInt(BitAnd(a.n, b.n)))
    ELSE Raise("TypeError", "unsupported operand type(s) for &", <<>>)

operator_or_(a, b) ==
    IF a.t = "int" /\ b.t = "int" THEN Ok(PyInt(BitOr(a.n, b.n)))
    ELSE Raise("TypeError", "unsupported operand type(s) for |", <<>>)

\* The call f(a, b) of the operator function the grammar put in the chain.
Apply(f, a, b) ==
    CASE f = "add" -> operator_add(a, b)
      [] f = "sub" -> operator_sub(a, b)
      [] f = "mul" -> operator_mul(a, b)
      [] f = "truediv" -> operator_truediv(a, b)
      [] f = "pow" -> operator_pow(a, b)
      [] f = "and_" -> operator_and_(a, b)
      [] f = "or_" -> operator_or_(a, b)

\* ------------------------------------------------------ class Function

Function(head, expr) == [kind |-> "Function", head |-> head, expr |-> expr]

Self == <<"s", "e", "l", "f">>

EmptyCtx == [k \in {} |-> NoneV]

\* A faulty Function._value: a missing name reads as 0 (context.get with a
\* default) instead of raising.
Function_value_default(t, ctx) ==
    IF t.kind = "Token" THEN
        IF t.value \in DOMAIN ctx THEN Ok(ctx[t.value]) ELSE Ok(PyInt(0))
    ELSE IF t.kind = "Function" THEN Function__call__(t, ctx)
    ELSE Ok(t)

\* Function._value
Function_value(t, ctx) ==
    IF t.kind = "Token" THEN
        IF t.value \in DOMAIN ctx THEN Ok(ctx[t.value])
        ELSE Raise("EvaluationError", "unbound variable", t.value)
    ELSE IF t.kind = "Function" THEN Function__call__(t, ctx)
    ELSE Ok(t)

\* A faulty loop of Function.__call__: the chain is folded from the
\* right, a f1 (b1 f2 (b2 ...)).
FoldExprRight(expr, k, a, ctx) ==
    IF k > Len(expr) THEN Ok(a)
    ELSE Try(Function_value(expr[k][2], ctx),
             LAMBDA b : Try(FoldExprRight(expr, k + 1, b, ctx),
                            LAMBDA r : Apply(expr[k][1], a, r)))

\* The loop of Function.__call__ from the k-th pair of self.expr on.
FoldExpr(expr, k, a, ctx) ==
    IF k > Len(expr) THEN Ok(a)
    ELSE Try(Function_value(expr[k][2], ctx),
             LAMBDA b : Try(Apply(expr[k][1], a, b),
                            LAMBDA r : FoldExpr(expr, k + 1, r, ctx)))

\* Function.__call__(self, **context): the context is passed as keyword
\* arguments, so a key 'self' collides with the method's own parameter.
Function__call__(f, ctx) ==
    IF Self \in DOMAIN ctx
    THEN Raise("TypeError", "got multiple values for argument 'self'", <<>>)
    ELSE Try(Function_value(f.head, ctx), LAMBDA a : FoldExpr(f.expr, 1, a, ctx))

\* ------------------------------------------------- semantic actions

Dict(map) == [kind |-> "dict", map |-> map]

\* A faulty eval_expr: an expression that refers to an unbound name is
\* returned as it is, unevaluated.
eval_expr_unevaluated(x0, x1) ==
    Except(Except(IF x1.kind = "None"
                  THEN Raise("TypeError", "argument after ** must be a mapping", <<>>)
                  ELSE Function__call__(x0, x1.map),
                  "TypeError", Function__call__(x0, EmptyCtx)),
           "EvaluationError", Ok(x0))

\* x[0](**x[1]); a TypeError, of the call or of anything it evaluates, is
\* answered by x[0]() with no binding at all.
eval_expr(x0, x1) ==
    Except(IF x1.kind = "None"
           THEN Raise("TypeError", "argument after ** must be a mapping", <<>>)
           ELSE Function__call__(x0, x1.map),
           "TypeError", Function__call__(x0, EmptyCtx))

make_function(head, tail) == Function(head, tail)

make_binding(t0, t1) == <<t0.value, t1>>

\* A faulty make_context: no test, a later binding of a name replaces the
\* earlier one.
make_context_override_loop(ctx, tail, k) ==
    IF k > Len(tail) THEN Ok(Dict(ctx))
    ELSE make_context_override_loop((tail[k][1] :> tail[k][2]) @@ ctx, tail, k + 1)

make_context_override(head, tail) ==
    make_context_override_loop((head[1] :> head[2]), tail, 1)

make_context(head, tail) == context_loop((head[1] :> head[2]), tail, 1)

\* The loop of make_context from the k-th pair of tail on.
context_loop(ctx, tail, k) ==
    IF k > Len(tail) THEN Ok(Dict(ctx))
    ELSE IF tail[k][1] \in DOMAIN ctx
         THEN Raise("EvaluationError", "is already bound", tail[k][1])
    ELSE context_loop(ctx @@ (tail[k][1] :> tail[k][2]), tail, k + 1)

\* ------------------------------------ classes Set, Enumeration, Range

\* An instance is a new object (id).  None of the classes defines __eq__,
\* so == on two instances is object identity.
Set(function, ctx, id) ==
    [kind |-> "Set", function |-> function, context |-> ctx, id |-> id]

Enumeration(elements, id) == [kind |-> "Enumeration", elements |-> elements, id |-> id]

Range(lower_bound, upper_bound, id) ==
    [kind |-> "Range", lower_bound |-> lower_bound, upper_bound |-> upper_bound,
     id |-> id]

\* The identity of the object the rule that starts at token p creates.
NewId(p) == heap + p

\* Python's == on the values parse can return.
PyEq(a, b) ==
    IF a.kind = "num" /\ b.kind = "num" THEN
        IF Exact(a) /\ Exact(b) THEN a.n * b.d = b.n * a.d
        ELSE a.irr = b.irr
    ELSE IF a.kind = "num" \/ b.kind = "num" THEN FALSE
    ELSE a.id = b.id

\* eval_expr on each of exprs in turn, from the k-th on: the values, or the
\* first exception.
EvalAll(exprs, k, x2) ==
    IF k > Len(exprs) THEN Ok(<<>>)
    ELSE Try(eval_expr(exprs[k], x2),
             LAMBDA v : Try(EvalAll(exprs, k + 1, x2), LAMBDA rest : Ok(<<v>> \o rest)))

\* A Python set of the values of vs: of equal values the first one stays.
Dedup(vs, acc) ==
    IF vs = <<>> THEN acc
    ELSE IF \E e \in acc : PyEq(e, Head(vs)) THEN Dedup(Tail(vs), acc)
    ELSE Dedup(Tail(vs), acc \cup {Head(vs)})

make_enum(x0, x1, x2, id) ==
    IF x0.kind # "None"
    THEN Try(EvalAll(<<x0>> \o x1, 1, x2), LAMBDA e : Ok(Enumeration(Dedup(e, {}), id)))
    ELSE Ok(Enumeration({}, id))

make_range(x0, x1, x2, id) ==
    Try(eval_expr(x0, x2),
        LAMBDA lo : Try(eval_expr(x1, x2), LAMBDA hi : Ok(Range(lo, hi, id))))

make_set(x0, x1, id) == Ok(Set(x0, x1, id))

\* ------------------------------------------------------ the grammar

\* What a funcparserlib parser does at token p: it returns a value and the
\* next position, fails with NoParseError (which | many and maybe catch), or
\* a semantic action raises (which nothing catches).
POk(v, p) == [st |-> "ok", v |-> v, p |-> p]

PFail == [st |-> "fail", v |-> NoneV, p |-> 0]

PRaise(e) == [st |-> "raise", v |-> e, p |-> 0]

\* The outcome of a semantic action applied to what was parsed up to p.
Act(out, p) == IF out.st = "ok" THEN POk(out.v, p) ELSE PRaise(out.v)

\* a + b: b is applied where a stopped, if a succeeded.
Then(r, K(_)) == IF r.st # "ok" THEN r ELSE K(r)

\* a | b: b is applied if a failed with NoParseError.
Else(r, other) == IF r.st = "fail" THEN other ELSE r

IsTok(ts, p, type, value) ==
    p >= 1 /\ p <= Len(ts) /\ ts[p].type = type /\ ts[p].value = value

\* op = lambda s: a(Token('operator', s)) and kw = lambda s: a(Token('name', s))
op(ts, p, s) == IsTok(ts, p, "operator", s)

kw(ts, p, s) == IsTok(ts, p, "name", s)

For == <<"f", "o", "r">>

\* The primitives that turn an operator token into a function of operator.
add == <<<<"+">>, "add">>
sub == <<<<"-">>, "sub">>
mul == <<<<"*">>, "mul">>
div == <<<<"/">>, "truediv">>
power == <<<<"*", "*">>, "pow">>
and_ == <<<<"a", "n", "d">>, "and_">>
or_ == <<<<"o", "r">>, "or_">>

mul_op == {mul, div}
add_op == {add, sub}
bin_op == {or_, and_}

\* An alternative of such primitives.
alt(ts, p, prims) ==
    IF \E q \in prims : op(ts, p, q[1])
    THEN POk((CHOOSE q \in prims : op(ts, p, q[1]))[2], p + 1)
    ELSE PFail

name(ts, p) ==
    IF p >= 1 /\ p <= Len(ts) /\ ts[p].type = "name" THEN POk(ts[p], p + 1) ELSE PFail

number(ts, p) ==
    IF p >= 1 /\ p <= Len(ts) /\ ts[p].type = "number"
    THEN POk(make_number(ts[p].value), p + 1)
    ELSE PFail

\* f + a for an operator primitive f and an operand parsed by a: the pair.
Pair(f, a) ==
    IF f.st # "ok" THEN f ELSE IF a.st # "ok" THEN a ELSE POk(<<f.v, a.v>>, a.p)

\* with_forward_decls(lambda: ...): a rule is looked up by its name when it
\* is applied, so the rules can refer to each other.
with_forward_decls(rule, ts, p) ==
    CASE rule = "atom" -> atom(ts, p)
      [] rule = "factor" -> factor(ts, p)
      [] rule = "term" -> term(ts, p)
      [] rule = "expression" -> expression(ts, p)
      [] rule = "binding" -> binding(ts, p)
      [] rule = "context" -> context(ts, p)
      [] rule = "evaluable" -> evaluable(ts, p)
      [] rule = "evaluation" -> evaluation(ts, p)
      [] rule = "enumeration" -> enumeration(ts, p)
      [] rule = "range_" -> range_(ts, p)
      [] rule = "set_" -> set_(ts, p)
      [] rule = "set_expr" -> set_expr(ts, p)
      [] rule = "set_binding" -> set_binding(ts, p)
      [] rule = "set_context" -> set_context(ts, p)

\* The parsers that the grammar repeats with many.
item(rule, ts, p) ==
    CASE rule = "power + atom" ->
            Pair(alt(ts, p, {power}), with_forward_decls("atom", ts, p + 1))
      [] rule = "mul_op + factor" ->
            Pair(alt(ts, p, mul_op), with_forward_decls("factor", ts, p + 1))
      [] rule = "(add_op | bin_op) + term" ->
            Pair(alt(ts, p, add_op \cup bin_op), with_forward_decls("term", ts, p + 1))
      [] rule = "op_(',') + binding" ->
            IF op(ts, p, <<",">>) THEN with_forward_decls("binding", ts, p + 1) ELSE PFail
      [] rule = "op_(',') + expression" ->
            IF op(ts, p, <<",">>) THEN with_forward_decls("expression", ts, p + 1) ELSE PFail
      [] rule = "op_(',') + set_binding" ->
            IF op(ts, p, <<",">>) THEN with_forward_decls("set_binding", ts, p + 1) ELSE PFail

\* many(rule): the values of rule applied until it fails.
many(rule, ts, p, acc) ==
    Else(Then(item(rule, ts, p), LAMBDA r : many(rule, ts, r.p, Append(acc, r.v))),
         POk(acc, p))

\* head + many(rule) >> uncurry(make_function)
chain(head, rule, ts) ==
    Then(head, LAMBDA h :
        Then(many(rule, ts, h.p, <<>>), LAMBDA tail :
            POk(make_function(h.v, tail.v), tail.p)))

atom(ts, p) ==
    Else(number(ts, p),
         Else(name(ts, p),
              IF op(ts, p, <<"(">>)
              THEN Then(with_forward_decls("expression", ts, p + 1), LAMBDA e :
                       IF op(ts, e.p, <<")">>) THEN POk(e.v, e.p + 1) ELSE PFail)
              ELSE PFail))

factor(ts, p) == chain(with_forward_decls("atom", ts, p), "power + atom", ts)

term(ts, p) == chain(with_forward_decls("factor", ts, p), "mul_op + factor", ts)

expression(ts, p) ==
    chain(with_forward_decls("term", ts, p), "(add_op | bin_op) + term", ts)

binding(ts, p) ==
    Then(name(ts, p), LAMBDA n :
        IF op(ts, n.p, <<"=">>)
        THEN Then(with_forward_decls("evaluation", ts, n.p + 1), LAMBDA v :
                 POk(make_binding(n.v, v.v), v.p))
        ELSE PFail)

context(ts, p) ==
    Then(with_forward_decls("binding", ts, p), LAMBDA b :
        Then(many("op_(',') + binding", ts, b.p, <<>>), LAMBDA tail :
            Act(make_context(b.v, tail.v), tail.p)))

\* maybe(kw_('for') + c) for c one of context and set_context.
maybe_for(c, ts, p) ==
    IF kw(ts, p, For) THEN Else(with_forward_decls(c, ts, p + 1), POk(NoneV, p))
    ELSE POk(NoneV, p)

\* ... + maybe(kw_('for') + c) + op_('}') >> make, the end of the three set
\* rules; make is applied to the context or None.
for_and_close(c, ts, p, make(_)) ==
    Then(maybe_for(c, ts, p), LAMBDA r :
        IF op(ts, r.p, <<"}">>) THEN Act(make(r.v), r.p + 1) ELSE PFail)

evaluable(ts, p) ==
    Then(with_forward_decls("expression", ts, p), LAMBDA e :
        Then(maybe_for("context", ts, e.p), LAMBDA c :
            Act(eval_expr(e.v, c.v), c.p)))

evaluation(ts, p) ==
    Else(with_forward_decls("evaluable", ts, p),
         IF op(ts, p, <<"(">>)
         THEN Then(with_forward_decls("evaluable", ts, p + 1), LAMBDA i :
                  IF op(ts, i.p, <<")">>) THEN POk(i.v, i.p + 1) ELSE PFail)
         ELSE PFail)

enumeration(ts, p) ==
    IF ~op(ts, p, <<"{">>) THEN PFail
    ELSE Then(Else(Then(with_forward_decls("expression", ts, p + 1), LAMBDA e :
                       Then(many("op_(',') + expression", ts, e.p, <<>>), LAMBDA l :
                           POk(<<e.v, l.v>>, l.p))),
                   POk(<<NoneV, <<>>>>, p + 1)),
              LAMBDA m : for_and_close("context", ts, m.p,
                                       LAMBDA c : make_enum(m.v[1], m.v[2], c, NewId(p))))

range_(ts, p) ==
    IF ~op(ts, p, <<"{">>) THEN PFail
    ELSE Then(with_forward_decls("expression", ts, p + 1), LAMBDA lo :
             IF op(ts, lo.p, <<":">>)
             THEN Then(with_forward_decls("expression", ts, lo.p + 1), LAMBDA hi :
                      for_and_close("context", ts, hi.p,
                                    LAMBDA c : make_range(lo.v, hi.v, c, NewId(p))))
             ELSE PFail)

set_(ts, p) ==
    IF ~op(ts, p, <<"{">>) THEN PFail
    ELSE Then(with_forward_decls("expression", ts, p + 1), LAMBDA e :
             for_and_close("set_context", ts, e.p,
                           LAMBDA c : make_set(e.v, c, NewId(p))))

set_expr(ts, p) ==
    Else(with_forward_decls("enumeration", ts, p),
         Else(with_forward_decls("range_", ts, p), with_forward_decls("set_", ts, p)))

In == <<"i", "n">>

set_binding(ts, p) ==
    Then(name(ts, p), LAMBDA n :
        IF op(ts, n.p, In)
        THEN Then(with_forward_decls("set_expr", ts, n.p + 1), LAMBDA v :
                 POk(make_binding(n.v, v.v), v.p))
        ELSE PFail)

set_context(ts, p) ==
    Then(with_forward_decls("set_binding", ts, p), LAMBDA b :
        Then(many("op_(',') + set_binding", ts, b.p, <<>>), LAMBDA tail :
            Act(make_context(b.v, tail.v), tail.p)))

\* skip(finished)
finished(ts, r) == IF r.p = Len(ts) + 1 THEN r ELSE PFail

yaffel(ts) ==
    Then(Else(with_forward_decls("evaluable", ts, 1), with_forward_decls("set_expr", ts, 1)),
         LAMBDA r : finished(ts, r))

\* type(parsed)
TypeOf(v) == IF v.kind = "num" THEN v.t ELSE v.kind

\* The last two lines of parse, on the tokens tokenize returned.
parse_return(r) ==
    IF r.st = "ok" THEN Ok([type |-> TypeOf(r.v), value |-> r.v])
    ELSE IF r.st = "raise" THEN [st |-> "raise", v |-> r.v]
    ELSE Raise("NoParseError", "no parse", <<>>)

yaffel_parse(ts) == parse_return(yaffel(ts))

\* ------------------------------------------------------- program text

DigitChar(d) ==
    CASE d = 0 -> "0" [] d = 1 -> "1" [] d = 2 -> "2" [] d = 3 -> "3" [] d = 4 -> "4"
      [] d = 5 -> "5" [] d = 6 -> "6" [] d = 7 -> "7" [] d = 8 -> "8" [] d = 9 -> "9"

DigitsOf(n) ==
    IF n < 10 THEN <<DigitChar(n)>> ELSE DigitsOf(n \div 10) \o <<DigitChar(n % 10)>>

\* The decimal literal of the integer n.
IntText(n) == IF n < 0 THEN <<"-">> \o DigitsOf(-n) ELSE DigitsOf(n)

\* The words from the k-th on, one space between two words except at the
\* gaps listed in tight (gap k follows word k).
Join(words, tight, k) ==
    IF k > Len(words) THEN <<>>
    ELSE words[k] \o (IF k = Len(words) \/ k \in tight THEN <<>> ELSE <<" ">>)
         \o Join(words, tight, k + 1)

\* A program: the words it is written with and where they are written
\* without a space between them, and what the program was built from.
Program(words, tight, meta) == [words |-> words, tight |-> tight, meta |-> meta]

Text(p) == Join(p.words, p.tight, 1)

\* ------------------------------------------------------------ actions

\* parse(seq) is called on the next program.
Call ==
    /\ pc = "idle"
    /\ todo # <<>>
    /\ prog' = Head(todo)
    /\ todo' = Tail(todo)
    /\ src' = Text(Head(todo))
    /\ pos' = 1
    /\ toks' = <<>>
    /\ pc' = "tokenize"
    /\ UNCHANGED <<results, heap>>

\* One round of the tokenizer's loop: the token at pos, kept unless it is
\* space; text that no specification matches raises LexerError out of parse.
Tokenize ==
    /\ pc = "tokenize"
    /\ pos <= Len(src)
    /\ \E t \in {match_specs(src, pos)} :
          IF t.kind = "LexerError"
          THEN /\ results' = Append(results,
                       [prog |-> prog, out |-> Raise("LexerError", "cannot tokenize", <<>>)])
               /\ pc' = "idle"
               /\ UNCHANGED <<pos, toks>>
          ELSE /\ pos' = pos + Len(t.value)
               /\ toks' = IF t.type = "space" THEN toks ELSE Append(toks, t)
               /\ UNCHANGED <<pc, results>>
    /\ UNCHANGED <<todo, prog, src, heap>>

\* The text is used up: the grammar runs on the tokens and parse returns
\* (type(parsed), parsed) or raises.
Parse ==
    /\ pc = "tokenize"
    /\ pos > Len(src)
    /\ results' = Append(results, [prog |-> prog, out |-> yaffel_parse(toks)])
    /\ heap' = heap + Len(toks) + 1
    /\ pc' = "idle"
    /\ UNCHANGED <<todo, prog, src, pos, toks>>

Next == Call \/ Tokenize \/ Parse

\* The state before the first call, with the calls that will be made.
Start(calls) ==
    /\ todo \in calls
    /\ prog = Program(<<>>, {}, <<>>)
    /\ src = <<>>
    /\ pos = 1
    /\ toks = <<>>
    /\ pc = "idle"
    /\ results = <<>>
    /\ heap = 0


\* The last finished call, when parse is not running.
Finished == pc = "idle" /\ results # <<>>

Last == results[Len(results)]

Returned(r) == r.out.st = "ok"

Raised(r, exc) == r.out.st = "raise" /\ r.out.v.exc = exc

\* parse returned (int, n).
ReturnedInt(r, n) == Returned(r) /\ r.out.v.type = "int" /\ r.out.v.value = PyInt(n)

\* ------------------------------------------- arithmetic programs (C1)

\* The number of operands of a generated arithmetic program.
MaxOperands == 3

\* A numeric literal: how it is written and the number it denotes.
Lit(n) == [text |-> IntText(n), val |-> PyInt(n)]

Half == [text |-> <<"0", ".", "5">>, val |-> PyFloat(1, 2)]

OpNames == {"pow", "mul", "truediv", "add", "sub", "and_", "or_"}

OpText(f) ==
    CASE f = "pow" -> <<"*", "*">>
      [] f = "mul" -> <<"*">>
      [] f = "truediv" -> <<"/">>
      [] f = "add" -> <<"+">>
      [] f = "sub" -> <<"-">>
      [] f = "and_" -> <<"a", "n", "d">>
      [] f = "or_" -> <<"o", "r">>

\* An arithmetic program: operands lits[1..n] joined by ops[1..n-1], with
\* parentheses around operands par[1]..par[2] (none for <<0, 0>>).
Arith(lits, ops, par) == [lits |-> lits, ops |-> ops, par |-> par]

Pars(n) == {<<0, 0>>} \cup {q \in (1..n) \X (1..n) : q[1] < q[2]}

\* The programs of test_elementary_arithmetic and test_exponent, and some
\* with a negative literal, a float literal and a division by zero.
ExamplePowLeft == Arith(<<Lit(2), Lit(2), Lit(3)>>, <<"pow", "pow">>, <<0, 0>>)
ExamplePowRight == Arith(<<Lit(2), Lit(2), Lit(3)>>, <<"pow", "pow">>, <<2, 3>>)
ExampleSubLeft == Arith(<<Lit(1), Lit(1), Lit(3)>>, <<"sub", "sub">>, <<0, 0>>)
ExampleSubRight == Arith(<<Lit(1), Lit(1), Lit(3)>>, <<"sub", "sub">>, <<2, 3>>)

ExampleArith ==
    { ExamplePowLeft, ExamplePowRight, ExampleSubLeft, ExampleSubRight,
      Arith(<<Lit(1), Lit(1)>>, <<"add">>, <<0, 0>>),
      Arith(<<Lit(1), Lit(1), Lit(2)>>, <<"add", "add">>, <<2, 3>>),
      Arith(<<Lit(1), Lit(1), Lit(2)>>, <<"add", "mul">>, <<0, 0>>),
      Arith(<<Lit(1), Lit(1), Lit(2)>>, <<"add", "mul">>, <<1, 2>>),
      Arith(<<Lit(1), Lit(1), Lit(2)>>, <<"add", "truediv">>, <<1, 2>>),
      Arith(<<Lit(1), Lit(1), Lit(0)>>, <<"add", "truediv">>, <<1, 2>>),
      Arith(<<Lit(2), Half>>, <<"pow">>, <<0, 0>>),
      Arith(<<Lit(3), Lit(-1), Half>>, <<"sub", "mul">>, <<0, 0>>),
      Arith(<<Lit(6), Half, Lit(3)>>, <<"sub", "and_">>, <<0, 0>>),
      Arith(<<Lit(6), Lit(3), Lit(8)>>, <<"and_", "or_">>, <<0, 0>>) }

\* The words of operands k.. of the arithmetic program m.
ArithWords(m, k) ==
    IF k > Len(m.lits) THEN <<>>
    ELSE (IF k = m.par[1] THEN <<<<"(">>>> ELSE <<>>)
         \o <<m.lits[k].text>>
         \o (IF k = m.par[2] THEN <<<<")">>>> ELSE <<>>)
         \o (IF k < Len(m.lits) THEN <<OpText(m.ops[k])>> ELSE <<>>)
         \o ArithWords(m, k + 1)

ArithProgram(m) == Program(ArithWords(m, 1), {}, m)

\* Every chain of up to MaxOperands literals 1 and 2, with every choice of
\* operators and with one pair of parentheses or none, and the examples.
InitArith ==
    \/ \E n \in 1..MaxOperands :
           \E l \in [1..n -> {Lit(1), Lit(2)}], o \in [1..(n - 1) -> OpNames], q \in Pars(n) :
               Start({<<ArithProgram(Arith(l, o, q))>>})
    \/ \E m \in ExampleArith : Start({<<ArithProgram(m)>>})

SpecArith == InitArith /\ [][Next]_vars

\* The reference evaluator.  ** binds tightest, then * and /, then + - and
\* or together; a chain of one tier groups to the left, so the operator
\* applied last is the last one of the loosest tier present.
Tier(f) == IF f = "pow" THEN 1 ELSE IF f \in {"mul", "truediv"} THEN 2 ELSE 3

Max(S) == CHOOSE k \in S : \A j \in S : j <= k

Min(S) == CHOOSE k \in S : \A j \in S : k <= j

LastOfLoosest(ops, lo, hi) ==
    LET at(t) == {k \in lo..(hi - 1) : Tier(ops[k]) = t}
    IN IF at(3) # {} THEN Max(at(3)) ELSE IF at(2) # {} THEN Max(at(2)) ELSE Max(at(1))

\* The value of operands lo..hi (vals: what each operand evaluates to).
RefChain(vals, ops, lo, hi) ==
    IF lo = hi THEN vals[lo]
    ELSE Try(RefChain(vals, ops, lo, LastOfLoosest(ops, lo, hi)),
             LAMBDA l : Try(RefChain(vals, ops, LastOfLoosest(ops, lo, hi) + 1, hi),
                            LAMBDA r : Apply(ops[LastOfLoosest(ops, lo, hi)], l, r)))

RefArith(m) ==
    LET n == Len(m.lits)
        vals == [k \in 1..n |-> Ok(m.lits[k].val)]
        i == m.par[1]
        w == m.par[2] - m.par[1]
    IN IF i = 0 THEN RefChain(vals, m.ops, 1, n)
       ELSE RefChain([k \in 1..(n - w) |->
                          IF k < i THEN vals[k]
                          ELSE IF k = i THEN RefChain(vals, m.ops, i, i + w)
                          ELSE vals[k + w]],
                     [k \in 1..(n - w - 1) |-> IF k < i THEN m.ops[k] ELSE m.ops[k + w]],
                     1, n - w)

\* What parse does on a program whose expression evaluates to out.
Expect(out) ==
    IF out.st = "ok" THEN Ok([type |-> out.v.t, value |-> out.v]) ELSE out

\* C1: parse returns (or raises) what the reference evaluator gives for the
\* program: ** tightest, then * /, then + - and or in one tier, every chain
\* of one tier folded left to right.
C1_Precedence ==
    \A k \in 1..Len(results) : results[k].out = Expect(RefArith(results[k].prog.meta))

\* 2 ** 2 ** 3 has returned (int, 64) and 2 ** (2 ** 3) is another program.
C1_Witness ==
    /\ Finished
    /\ Last.prog.meta = ExamplePowLeft
    /\ ReturnedInt(Last, 64)
    /\ RefArith(ExamplePowRight) = Ok(PyInt(256))


\* ---------------------------------------------- scoping programs (C2)

\* The integers written in generated programs are within -MaxV..MaxV.
MaxV == 2

X == <<"x">>
Y == <<"y">>
Z == <<"z">>
Eq == <<"=">>
Comma == <<",">>

\* n1 for n2 = n3 for n4 = v        (nested)
\* n1 for n2 =(n3 for n4 = v)       (paren)
\* n1 for n2 = n3, n4 = v           (sibling)
Scoping(form, n1, n2, n3, n4, v) ==
    [form |-> form, n1 |-> n1, n2 |-> n2, n3 |-> n3, n4 |-> n4, v |-> v]

ScopingMetas ==
    { Scoping(f, n1, n2, n3, n4, v) : f \in {"nested", "paren", "sibling"},
          n1 \in {X, Y}, n2 \in {X, Y}, n3 \in {X, Y}, n4 \in {X, Y}, v \in (-MaxV)..MaxV }

ScopingProgram(m) ==
    CASE m.form = "nested" ->
            Program(<<m.n1, For, m.n2, Eq, m.n3, For, m.n4, Eq, IntText(m.v)>>, {}, m)
      [] m.form = "paren" ->
            Program(<<m.n1, For, m.n2, Eq, <<"(">>, m.n3, For, m.n4, Eq, IntText(m.v),
                      <<")">> >>, {4, 5, 10}, m)
      [] m.form = "sibling" ->
            Program(<<m.n1, For, m.n2, Eq, m.n3, Comma, m.n4, Eq, IntText(m.v)>>, {5}, m)

InitScoping == Start({<<ScopingProgram(m)>> : m \in ScopingMetas})

SpecScoping == InitScoping /\ [][Next]_vars

Unbound(n) == Raise("EvaluationError", "unbound variable", n)

\* An initializer sees the bindings of its own trailing for clause only.
ScopingExpect(m) ==
    IF m.form = "sibling" THEN Unbound(m.n3)
    ELSE IF m.n3 # m.n4 THEN Unbound(m.n3)
    ELSE IF m.n1 # m.n2 THEN Unbound(m.n1)
    ELSE Expect(Ok(PyInt(m.v)))

\* C2: an initializer is resolved against the bindings of its own trailing
\* for clause and never against the list its binding belongs to: the nested
\* and parenthesised programs return (int, v) when each name is bound by the
\* clause that follows it, and a sibling's name is unbound.
C2_Scoping ==
    \A k \in 1..Len(results) : results[k].out = ScopingExpect(results[k].prog.meta)

\* x for x = x for x = -2 has returned (int, -2).
C2_Witness ==
    /\ Finished
    /\ Last.prog.meta = Scoping("nested", X, X, X, X, -2)
    /\ ReturnedInt(Last, -2)

\* ------------------------------------- unbound-name programs (C3)

One == Lit(1).text
Zero == Lit(0).text

\* t1 op t2 ... [for x = 1]: a chain of up to MaxOperands terms, each a
\* name or one of the literals 1 and 0; bound tells whether the for clause
\* is there.
Free(terms, ops, bound) == [terms |-> terms, ops |-> ops, bound |-> bound]

FreeMetas ==
    UNION { { Free(t, o, b) : t \in [1..n -> {X, Y, One, Zero}],
                              o \in [1..(n - 1) -> {"add", "truediv", "and_"}],
                              b \in BOOLEAN } : n \in 1..MaxOperands }

FreeProgram(m) ==
    Program(ArithWords([lits |-> [k \in 1..Len(m.terms) |-> [text |-> m.terms[k]]],
                        ops |-> m.ops, par |-> <<0, 0>>], 1)
            \o (IF m.bound THEN <<For, X, Eq, One>> ELSE <<>>), {}, m)

InitFree == Start({<<FreeProgram(m)>> : m \in FreeMetas})

SpecFree == InitFree /\ [][Next]_vars

\* The positions of the chain that reference a name the context lacks.
UnboundAt(m) ==
    {k \in 1..Len(m.terms) : m.terms[k] = Y \/ (m.terms[k] = X /\ ~m.bound)}

\* What the first upto terms of the chain evaluate to, none of them unbound.
RefFree(m, upto) ==
    RefChain([k \in 1..upto |-> Ok(IF m.terms[k] = Zero THEN PyInt(0) ELSE PyInt(1))],
             m.ops, 1, upto)

\* C3 as stated: evaluating an expression that references a name absent
\* from the context fails with EvaluationError, at every position of the
\* reference in the chain.
C3_UnboundRaises ==
    \A k \in 1..Len(results) :
        UnboundAt(results[k].prog.meta) # {} => Raised(results[k], "EvaluationError")

\* C3 as amended: the evaluation fails and nothing is returned; the failure
\* is EvaluationError unless the part of the chain before the first unbound
\* reference fails by itself, and then it may be that failure.
C3_UnboundFails ==
    \A k \in 1..Len(results) :
        LET r == results[k]
            m == r.prog.meta
            j == Min(UnboundAt(m))
        IN UnboundAt(m) # {} =>
               /\ r.out.st = "raise"
               /\ \/ Raised(r, "EvaluationError")
                  \/ j > 1 /\ r.out = RefFree(m, j - 1)

\* x + y for x = 1 has raised EvaluationError for y.
C3_Witness ==
    /\ Finished
    /\ Last.prog.meta = Free(<<X, Y>>, <<"add">>, TRUE)
    /\ Last.out = Unbound(Y)

\* --------------------------------------- binding-list programs (C4)

\* The number of bindings of a list.
MaxBindings == 3

\* names[1] for n1 = 1, n2 = 2, ...           (for)
\* {x for n1 in {1}, n2 in {2}, ...}          (in)
Bindings(form, names) == [form |-> form, names |-> names]

BindingMetas ==
    UNION { { Bindings(f, ns) : f \in {"for", "in"}, ns \in [1..n -> {X, Y, Z}] }
            : n \in 2..MaxBindings }

\* The words of bindings k.. and the gaps before the commas.
BindingWords(m, k, at) ==
    IF k > Len(m.names) THEN [words |-> <<>>, tight |-> {}]
    ELSE LET one == IF m.form = "for" THEN <<m.names[k], Eq, IntText(k)>>
                    ELSE <<m.names[k], In, <<"{">>, IntText(k), <<"}">> >>
             last == k = Len(m.names)
             rest == BindingWords(m, k + 1, at + Len(one) + 1)
         IN [words |-> one \o (IF last THEN <<>> ELSE <<Comma>>) \o rest.words,
             tight |-> (IF m.form = "for" THEN {} ELSE {at + 2, at + 3})
                       \cup (IF last THEN {} ELSE {at + Len(one) - 1})
                       \cup rest.tight]

BindingProgram(m) ==
    LET b == BindingWords(m, 1, IF m.form = "for" THEN 3 ELSE 4)
    IN IF m.form = "for"
       THEN Program(<<m.names[1], For>> \o b.words, b.tight, m)
       ELSE Program(<< <<"{">>, X, For>> \o b.words \o << <<"}">> >>,
                    b.tight \cup {1, 3 + Len(b.words)}, m)

InitBindings == Start({<<BindingProgram(m)>> : m \in BindingMetas})

SpecBindings == InitBindings /\ [][Next]_vars

\* The positions whose name was bound at an earlier position of the list.
Repeats(ns) == {k \in 1..Len(ns) : \E j \in 1..(k - 1) : ns[j] = ns[k]}

\* C4: a list in which a name occurs twice makes parse fail with
\* EvaluationError ('... is already bound', at the first repetition) and
\* return nothing; a list of distinct names binds each name to its own
\* value.
C4_DistinctNames ==
    \A k \in 1..Len(results) :
        LET r == results[k]
            ns == r.prog.meta.names
        IN IF Repeats(ns) # {}
           THEN r.out = Raise("EvaluationError", "is already bound", ns[Min(Repeats(ns))])
           ELSE /\ Returned(r)
                /\ r.prog.meta.form = "for" => ReturnedInt(r, 1)
                /\ r.prog.meta.form = "in" =>
                       /\ r.out.v.type = "Set"
                       /\ DOMAIN r.out.v.value.context.map = {ns[i] : i \in 1..Len(ns)}
                       /\ \A i \in 1..Len(ns) :
                              r.out.v.value.context.map[ns[i]].elements = {PyInt(i)}

\* x for x = 1, y = 2, x = 3 has raised EvaluationError.
C4_Witness ==
    /\ Finished
    /\ Last.prog.meta = Bindings("for", <<X, Y, X>>)
    /\ Raised(Last, "EvaluationError")
    /\ Last.out.v.msg = "is already bound"

\* ------------------------------------------------ range literals (C5)

\* {lower:upper}, written without spaces as the tests write it.
RangeLit(lower, upper) == [lower |-> lower, upper |-> upper]

RangeMetas == {RangeLit(lo, hi) : lo \in -MaxV..MaxV, hi \in -MaxV..MaxV}

RangeProgram(m) ==
    Program(<< <<"{">>, IntText(m.lower), <<":">>, IntText(m.upper), <<"}">> >>,
            {1, 2, 3, 4}, m)

InitRange == Start({<<RangeProgram(m)>> : m \in RangeMetas})

SpecRange == InitRange /\ [][Next]_vars

\* C5: '{lower:upper}' with lower >= upper makes parse raise TypeError; with
\* lower < upper parse returns (Range, r) and r equals a Range(lower, upper)
\* constructed afterwards.
C5_RangeValidated ==
    \A k \in 1..Len(results) :
        LET r == results[k]
            m == r.prog.meta
        IN IF m.lower >= m.upper THEN Raised(r, "TypeError")
           ELSE /\ Returned(r)
                /\ r.out.v.type = "Range"
                /\ PyEq(r.out.v.value, Range(PyInt(m.lower), PyInt(m.upper), heap))

\* -------------------------------------------- enumeration literals (C6)

\* The number of elements written in an enumeration literal.
MaxElements == 2

\* {e1,e2,...}, written without spaces.
EnumLit(elements) == [elements |-> elements]

EnumMetas == UNION { {EnumLit(e) : e \in [1..n -> 1..3]} : n \in 1..MaxElements }

EnumWords(m, k) ==
    IF k > Len(m.elements) THEN << <<"}">> >>
    ELSE (IF k = 1 THEN <<>> ELSE <<Comma>>) \o <<IntText(m.elements[k])>>
         \o EnumWords(m, k + 1)

EnumProgram(m) ==
    Program(<< <<"{">> >> \o EnumWords(m, 1), 1..(2 * Len(m.elements)), m)

\* Two calls of parse, one after the other.
InitEnum == Start({<<EnumProgram(m1), EnumProgram(m2)>> : m1 \in EnumMetas, m2 \in EnumMetas})

SpecEnum == InitEnum /\ [][Next]_vars

Written(m) == {m.elements[k] : k \in 1..Len(m.elements)}

\* C6: the values two calls of parse return for two enumeration literals are
\* equal (==) exactly when the literals have the same elements, whatever the
\* order, the duplicates, and the call that produced them.
C6_Extensional ==
    Len(results) = 2 =>
        /\ Returned(results[1])
        /\ Returned(results[2])
        /\ PyEq(results[1].out.v.value, results[2].out.v.value)
               <=> Written(results[1].prog.meta) = Written(results[2].prog.meta)

\* ------------------------------------------------ exponentiations (C7)

\* a ** b
Power(a, b) == [a |-> a, b |-> b]

PowerMetas ==
    LET lits == {Lit(n) : n \in -MaxV..MaxV} \cup {Half}
    IN {Power(a, b) : a \in lits, b \in lits}

PowerProgram(m) == Program(<<m.a.text, OpText("pow"), m.b.text>>, {}, m)

InitPower == Start({<<PowerProgram(m)>> : m \in PowerMetas})

SpecPower == InitPower /\ [][Next]_vars

IsIntLit(l) == l.val.t = "int"

\* C7 as stated: a ** b of two integer literals, negative b included,
\* returns the tag int whenever it returns; the tag is float only when an
\* operand is a float.
C7_IntTag ==
    \A k \in 1..Len(results) :
        LET r == results[k]
            m == r.prog.meta
        IN Returned(r) =>
               /\ IsIntLit(m.a) /\ IsIntLit(m.b) => r.out.v.type = "int"
               /\ r.out.v.type = "float" => ~IsIntLit(m.a) \/ ~IsIntLit(m.b)

\* C7 as amended: a ** b of two integer literals returns the tag int when
\* b >= 0 and the tag float when b < 0; the tag is other than int only when
\* an operand is a float or the exponent is negative.
C7_PowTag ==
    \A k \in 1..Len(results) :
        LET r == results[k]
            m == r.prog.meta
        IN Returned(r) =>
               /\ IsIntLit(m.a) /\ IsIntLit(m.b) /\ m.b.val.n >= 0 => r.out.v.type = "int"
               /\ IsIntLit(m.a) /\ IsIntLit(m.b) /\ m.b.val.n < 0 => r.out.v.type = "float"
               /\ r.out.v.type # "int" =>
                      ~IsIntLit(m.a) \/ ~IsIntLit(m.b) \/ m.b.val.n < 0

\* 2 ** -1 has returned (float, 0.5).
C7_Witness ==
    /\ Finished
    /\ Last.prog.meta = Power(Lit(2), Lit(-1))
    /\ Last.out = Expect(Ok(PyFloat(1, 2)))

\* ---------------------------------------------------- identifiers (C8)

\* The number of syllables of a generated identifier.
MaxSyllables == 2

Syllables == {In, <<"o", "r">>, <<"a", "n", "d">>, X, <<"_">>}

OperatorWords == {In, <<"o", "r">>, <<"a", "n", "d">>}

\* The identifiers of up to n syllables; a digit may follow the first one.
Words(n) ==
    IF n = 1 THEN Syllables
    ELSE Words(n - 1) \cup {a \o b : a \in Words(n - 1), b \in Syllables \cup {One}}

Identifiers == Words(MaxSyllables) \ OperatorWords

\* id for id = 1                  (name)
\* a**b                           (pow)
Ident(form, id, a, b) == [form |-> form, id |-> id, a |-> a, b |-> b]

IdentMetas ==
    {Ident("name", i, 0, 0) : i \in Identifiers}
        \cup {Ident("pow", <<>>, a, b) : a \in 1..MaxV, b \in 1..MaxV}

IdentProgram(m) ==
    IF m.form = "name" THEN Program(<<m.id, For, m.id, Eq, One>>, {}, m)
    ELSE Program(<<IntText(m.a), OpText("pow"), IntText(m.b)>>, {1, 2}, m)

InitIdent == Start({<<IdentProgram(m)>> : m \in IdentMetas})

SpecIdent == InitIdent /\ [][Next]_vars

\* C8: an identifier other than and, or, in is one name token that holds the
\* whole identifier, and it is usable as a variable; ** is one operator
\* token.
C8_WholeIdentifier ==
    Finished =>
        LET m == Last.prog.meta
        IN IF m.form = "name"
           THEN /\ toks = <<Token("name", m.id), Token("name", For), Token("name", m.id),
                            Token("operator", Eq), Token("number", One)>>
                /\ ReturnedInt(Last, 1)
           ELSE /\ toks = <<Token("number", IntText(m.a)), Token("operator", OpText("pow")),
                            Token("number", IntText(m.b))>>
                /\ ReturnedInt(Last, IPow(m.a, m.b))

\* ------------------------------------------ fully bound programs (C9)

\* n op l for n = v
Bound(n, f, l, v) == [n |-> n, f |-> f, l |-> l, v |-> v]

BoundMetas ==
    {Bound(n, f, l, v) : n \in {X, Y, Self}, f \in {"add", "truediv", "pow", "and_"},
                         l \in {Lit(0), Lit(1)}, v \in {Lit(0), Lit(1), Half}}

BoundProgram(m) == Program(<<m.n, OpText(m.f), m.l.text, For, m.n, Eq, m.v.text>>, {}, m)

InitBound == Start({<<BoundProgram(m)>> : m \in BoundMetas})

SpecBound == InitBound /\ [][Next]_vars

\* C9: when the for clause binds the only name of the expression, parse
\* returns the value computed with the name resolved to its bound value or
\* fails with the error of the operation itself, never with EvaluationError.
C9_BoundResolves ==
    \A k \in 1..Len(results) :
        LET r == results[k]
            m == r.prog.meta
        IN /\ ~Raised(r, "EvaluationError")
           /\ r.out = Expect(Apply(m.f, m.v.val, m.l.val))

\* ------------------------------------------------- binary minus (C10)

\* a - b, x - b for x = a, with or without the spaces around the minus.
Minus(a, b, named, spaced) == [a |-> a, b |-> b, named |-> named, spaced |-> spaced]

MinusMetas ==
    {Minus(a, b, n, s) : a \in 0..MaxV, b \in 0..MaxV, n \in BOOLEAN, s \in BOOLEAN}

MinusProgram(m) ==
    Program(<<IF m.named THEN X ELSE IntText(m.a), OpText("sub"), IntText(m.b)>>
            \o (IF m.named THEN <<For, X, Eq, IntText(m.a)>> ELSE <<>>),
            IF m.spaced THEN {} ELSE {1, 2}, m)

InitMinus == Start({<<MinusProgram(m)>> : m \in MinusMetas})

SpecMinus == InitMinus /\ [][Next]_vars

\* C10: with or without spaces around the minus, a - b and x - b for x = a
\* evaluate to (int, a - b).
C10_MinusSpacing ==
    \A k \in 1..Len(results) :
        ReturnedInt(results[k], results[k].prog.meta.a - results[k].prog.meta.b)

====
